---- MODULE Spec2Model ----
(***************************************************************************)
(* MeTooGraphBuilder (metoo/_build.py): graphs of the retweet network at   *)
(* one date (build_graph) and through time (build_graphs_set), built from  *)
(* the csv tables of a data directory.                                     *)
(*                                                                         *)
(* A pandas.DataFrame is a record [columns, rows]: columns is the sequence *)
(* of column names and rows maps each index key to the sequence of its     *)
(* cells.  A missing cell is NaN.  A networkx.DiGraph is a record          *)
(* [nodes, edges, attrs, eattrs]: attrs maps each node to its attribute    *)
(* dict, eattrs each edge to its attribute dict.                           *)
(***************************************************************************)
EXTENDS Integers, Sequences, FiniteSets, TLC

VARIABLES
    users_csv,  \* users.csv in datadir: [exists, data]
    nodes_csv,  \* nodes_<date>.csv in datadir, by date: [exists, data]
    edges_csv,  \* edges_<date>.csv in datadir, by date: [exists, data]
    _files,     \* self._files: the listing of datadir taken by __init__
    users,      \* self.users: the table read from users.csv by __init__
    pc,         \* "idle", or "returned" when a call has just returned
    call,       \* the arguments of the call that returned
    result,     \* what the call returned or raised
    locals      \* the local variables of a build_graphs_set under way

vars ==
    <<users_csv, nodes_csv, edges_csv, _files, users, pc, call, result, locals>>

-----------------------------------------------------------------------------
(* Bounds of the model. *)

\* Screen names that may appear in the tables.
Names == {"a", "b"}
\* Observation dates that have tables in datadir when __init__ lists it.
Dates == {1, 2}
\* Dates a caller may ask for: those of datadir and one that never had tables.
AllDates == {0} \cup Dates
\* The largest n_retweeted a row of a nodes table holds.
MaxRetweeted == 1
\* The largest min_retweeted a caller passes.
MaxThreshold == 1

-----------------------------------------------------------------------------
(* pandas *)

\* A missing cell.  It is no count, score or code of any table.
NaN == 0 - 1000

\* The columns of users.csv after its first column became the index.
UserCols ==
    <<"created_at", "verified", "followers_count", "friends_count",
      "favourites_count", "statuses_count">>

\* The columns of nodes_<date>.csv after its first column became the index.
NodeCols ==
    <<"n_tweets", "n_replies", "n_retweets", "n_retweeted", "sentiment_avg",
      "sentiment_abs_avg", "share_positive", "share_negative">>

\* The columns of edges_<date>.csv besides src and dst.
EdgeCols ==
    <<"n_retweets", "sentiment_avg", "sentiment_abs_avg", "share_positive",
      "share_negative">>

Range(s) == {s[i] : i \in DOMAIN s}

\* The position of a column of a DataFrame.
ColumnIndex(df, name) == CHOOSE i \in DOMAIN df.columns : df.columns[i] = name

\* df[name]: the column as a map from index key to cell.
Column(df, name) ==
    LET i == ColumnIndex(df, name)
    IN  [k \in DOMAIN df.rows |-> df.rows[k][i]]

\* df[mask] and df.loc[mask]: the rows whose key is in keep.
SelectRows(df, keep) ==
    [columns |-> df.columns,
     rows |-> [k \in (DOMAIN df.rows) \cap keep |-> df.rows[k]]]

\* A row of n missing cells.
NaNRow(n) == [i \in 1..n |-> NaN]

\* Mutant of merge_outer: pd.merge(left, right, how='left', ...)
merge_left(left, right) ==
    [columns |-> left.columns \o right.columns,
     rows |->
        [k \in DOMAIN left.rows |->
            left.rows[k]
            \o
            (IF k \in DOMAIN right.rows
                THEN right.rows[k] ELSE NaNRow(Len(right.columns)))]]

\* pd.merge(left, right, how='outer', left_index=True, right_index=True)
merge_outer(left, right) ==
    [columns |-> left.columns \o right.columns,
     rows |->
        [k \in (DOMAIN left.rows) \cup (DOMAIN right.rows) |->
            (IF k \in DOMAIN left.rows
                THEN left.rows[k] ELSE NaNRow(Len(left.columns)))
            \o
            (IF k \in DOMAIN right.rows
                THEN right.rows[k] ELSE NaNRow(Len(right.columns)))]]

\* cell >= bound as pandas compares: a missing cell compares False.
GreaterEqual(cell, bound) == cell # NaN /\ cell >= bound

\* fillna on one cell.
fillna(cell, value) == IF cell = NaN THEN value ELSE cell


\* df.iloc[:, lo:hi] = df.iloc[:, lo:hi].fillna(value), hi the last position.
fillna_columns(df, lo, hi, value) ==
    [columns |-> df.columns,
     rows |->
        [k \in DOMAIN df.rows |->
            [i \in DOMAIN df.columns |->
                IF lo <= i /\ i <= hi
                    THEN fillna(df.rows[k][i], value) ELSE df.rows[k][i]]]]

\* The cells of a row at the positions of the columns named in keep, in order.
RECURSIVE KeepCells(_, _, _, _)
KeepCells(columns, row, keep, i) ==
    IF i > Len(columns) THEN <<>>
    ELSE (IF columns[i] \in keep THEN <<row[i]>> ELSE <<>>)
         \o KeepCells(columns, row, keep, i + 1)

\* df.drop(names, axis=1)
drop_columns(df, names) ==
    [columns |-> KeepCells(df.columns, df.columns, Range(df.columns) \ names, 1),
     rows |->
        [k \in DOMAIN df.rows |->
            KeepCells(df.columns, df.rows[k], Range(df.columns) \ names, 1)]]

\* A DataFrame of the given columns without rows.
EmptyFrame(columns) == [columns |-> columns, rows |-> [k \in {} |-> <<>>]]

-----------------------------------------------------------------------------
(* networkx *)

\* An attribute dict without entries.
EmptyDict == [x \in {} |-> 0]

\* nx.DiGraph()
DiGraph == [nodes |-> {}, edges |-> {}, attrs |-> EmptyDict, eattrs |-> EmptyDict]

\* graph.add_nodes_from(ns): a new node starts with an empty attribute dict.
add_nodes_from(graph, ns) ==
    [graph EXCEPT
        !.nodes = graph.nodes \cup ns,
        !.attrs = [n \in graph.nodes \cup ns |->
                      IF n \in graph.nodes THEN graph.attrs[n] ELSE EmptyDict]]

\* graph.add_edges_from(es): an endpoint that is no node yet is added as one.
add_edges_from(graph, es) ==
    LET ends == {e[1] : e \in es} \cup {e[2] : e \in es}
        withEnds == add_nodes_from(graph, ends)
    IN  [withEnds EXCEPT
            !.edges = graph.edges \cup es,
            !.eattrs = [e \in graph.edges \cup es |->
                           IF e \in graph.edges THEN graph.eattrs[e] ELSE EmptyDict]]

-----------------------------------------------------------------------------
(* MeTooGraphBuilder *)

\* File names: users.csv, 'nodes_%s.csv' % date and 'edges_%s.csv' % date.
users_file == <<"users", 0>>
nodes_file(date) == <<"nodes", date>>
edges_file(date) == <<"edges", date>>

\* The file of that name in datadir as it is now.
FileAt(filename) ==
    IF filename[1] = "users" THEN users_csv
    ELSE IF filename[1] = "nodes" THEN nodes_csv[filename[2]]
    ELSE edges_csv[filename[2]]

\* What a call returns: the error it raised ("none" when it returned) and its
\* value.  The value of an error is what its message names, if anything.
Returned(value) == [error |-> "none", value |-> value]
Raised(error) == [error |-> error, value |-> <<>>]
RaisedAbout(error, named) == [error |-> error, value |-> named]

\* _get_data: pd.read_csv raises FileNotFoundError when the file is not there.
_get_data(filename) ==
    IF FileAt(filename).exists THEN Returned(FileAt(filename).data)
    ELSE IF filename \in _files THEN RaisedAbout("KeyError", filename)
    ELSE RaisedAbout("RuntimeError", filename)

\* nodes_list is None, or a list of screen names.
None == <<>>
List(names) == <<names>>

\* edges.index = edges[['src', 'dst']].apply(tuple, axis=1)
\* edges.drop(['src', 'dst'], axis=1, inplace=True)
index_by_couple(edges) ==
    LET src == Column(edges, "src")
        dst == Column(edges, "dst")
        couples == {<<src[k], dst[k]>> : k \in DOMAIN edges.rows}
        keyOf(c) == CHOOSE k \in DOMAIN edges.rows : <<src[k], dst[k]>> = c
    IN  drop_columns(
            [columns |-> edges.columns,
             rows |-> [c \in couples |-> edges.rows[keyOf(c)]]],
            {"src", "dst"})

\* Mutant of activity_mask: nodes['n_retweeted'] > min_retweeted
activity_mask_strict(merged, min_retweeted) ==
    LET n_retweeted == Column(merged, "n_retweeted")
    IN  {k \in DOMAIN merged.rows :
            n_retweeted[k] # NaN /\ n_retweeted[k] > min_retweeted}

\* Mutant of activity_mask: nodes['n_retweeted'] <= min_retweeted
activity_mask_below(merged, min_retweeted) ==
    LET n_retweeted == Column(merged, "n_retweeted")
    IN  {k \in DOMAIN merged.rows :
            n_retweeted[k] # NaN /\ n_retweeted[k] <= min_retweeted}

\* nodes['n_retweeted'] >= min_retweeted: the keys of the rows it marks.
activity_mask(merged, min_retweeted) ==
    LET n_retweeted == Column(merged, "n_retweeted")
    IN  {k \in DOMAIN merged.rows : GreaterEqual(n_retweeted[k], min_retweeted)}

\* Mutant of listing_mask: the listing is not looked at.
listing_mask_all(merged, nodes_list) == DOMAIN merged.rows

\* Mutant of listing_mask: the listed names that were active by the date.
listing_mask_active(merged, nodes_list) ==
    {k \in (DOMAIN merged.rows) \cap nodes_list[1] :
        Column(merged, "n_retweeted")[k] # NaN}

\* nodes.index.isin(nodes_list)
listing_mask(merged, nodes_list) == (DOMAIN merged.rows) \cap nodes_list[1]

\* Mutant of fill_missing: nodes.fillna(-1)
fill_missing_minus_one(nodes) == fillna_columns(nodes, 1, Len(nodes.columns), -1)

\* Fill nodes' missing information with '-1' code or null values.
fill_missing(nodes) ==
    fillna_columns(fillna_columns(nodes, 1, 6, -1), 7, Len(nodes.columns), 0)

\* Mutant of linked_mask: edges['dst'].isin(nodes.index)
linked_mask_dst_only(edges, nodes) ==
    LET dst == Column(edges, "dst")
    IN  {k \in DOMAIN edges.rows : dst[k] \in DOMAIN nodes.rows}

\* Mutant of linked_mask: edges['dst'].isin(...) | edges['src'].isin(...)
linked_mask_either(edges, nodes) ==
    LET src == Column(edges, "src")
        dst == Column(edges, "dst")
    IN  {k \in DOMAIN edges.rows :
            dst[k] \in DOMAIN nodes.rows \/ src[k] \in DOMAIN nodes.rows}

\* edges['dst'].isin(nodes.index) & edges['src'].isin(nodes.index)
linked_mask(edges, nodes) ==
    LET src == Column(edges, "src")
        dst == Column(edges, "dst")
    IN  {k \in DOMAIN edges.rows :
            dst[k] \in DOMAIN nodes.rows /\ src[k] \in DOMAIN nodes.rows}

\* Mutant of trims_single: if not keep_single
trims_single_always(nodes_list, keep_single) == ~keep_single

\* if nodes_list is None and not keep_single
trims_single(nodes_list, keep_single) == nodes_list = None /\ ~keep_single

\* nodes.index.isin(edges['dst']) | nodes.index.isin(edges['src'])
connected_mask(nodes, edges) ==
    LET src == Column(edges, "src")
        dst == Column(edges, "dst")
    IN  {n \in DOMAIN nodes.rows :
            \/ \E k \in DOMAIN edges.rows : dst[k] = n
            \/ \E k \in DOMAIN edges.rows : src[k] = n}

\* load_data, from the tables read: the selected nodes and edges.
select_data(merged, edges_read, nodes_list, min_retweeted, keep_single) ==
    LET selected ==
            IF nodes_list = None
                THEN SelectRows(merged, activity_mask(merged, min_retweeted))
                ELSE SelectRows(merged, listing_mask(merged, nodes_list))
        filled == fill_missing(selected)
        edges == SelectRows(edges_read, linked_mask(edges_read, filled))
        nodes ==
            IF trims_single(nodes_list, keep_single)
                THEN SelectRows(filled, connected_mask(filled, edges))
                ELSE filled
    IN  [nodes |-> nodes, edges |-> index_by_couple(edges)]

\* load_data
load_data(date, nodes_list, min_retweeted, keep_single) ==
    LET nodes_read == _get_data(nodes_file(date))
        edges_read == _get_data(edges_file(date))
    IN  IF nodes_read.error # "none" THEN nodes_read
        ELSE IF edges_read.error # "none" THEN edges_read
        ELSE Returned(
                select_data(merge_outer(users, nodes_read.value),
                    edges_read.value, nodes_list, min_retweeted, keep_single))

\* for attr in nodes.columns[from:]:
\*     nx.set_node_attributes(graph, nodes[attr].to_dict(), attr)
\* in one step: every node with a row in the table gets, under the name of
\* each of these columns, its cell in that column.
add_nodes_attributes(graph, nodes, from) ==
    LET names == {nodes.columns[i] : i \in from..Len(nodes.columns)}
    IN  [graph EXCEPT
            !.attrs = [n \in graph.nodes |->
                IF n \in DOMAIN nodes.rows
                    THEN [attr \in (DOMAIN graph.attrs[n]) \cup names |->
                            IF attr \in names
                                THEN nodes.rows[n][ColumnIndex(nodes, attr)]
                                ELSE graph.attrs[n][attr]]
                    ELSE graph.attrs[n]]]

\* for attr in edges.columns[from:]:
\*     nx.set_edge_attributes(graph, edges[attr].to_dict(), attr)
add_edges_attributes(graph, edges, from) ==
    LET names == {edges.columns[i] : i \in from..Len(edges.columns)}
    IN  [graph EXCEPT
            !.eattrs = [e \in graph.edges |->
                IF e \in DOMAIN edges.rows
                    THEN [attr \in (DOMAIN graph.eattrs[e]) \cup names |->
                            IF attr \in names
                                THEN edges.rows[e][ColumnIndex(edges, attr)]
                                ELSE graph.eattrs[e][attr]]
                    ELSE graph.eattrs[e]]]

\* build_graph, from the tables load_data returned.
make_graph(nodes, edges) ==
    LET withNodes == add_nodes_from(DiGraph, DOMAIN nodes.rows)
        withEdges == add_edges_from(withNodes, DOMAIN edges.rows)
        \* nodes.columns[1:]
        withAttrs == add_nodes_attributes(withEdges, nodes, 2)
    IN  add_edges_attributes(withAttrs, edges, 1)

\* build_graph
build_graph(date, nodes_list, min_retweeted, keep_single) ==
    LET loaded == load_data(date, nodes_list, min_retweeted, keep_single)
    IN  IF loaded.error # "none" THEN loaded
        ELSE Returned(make_graph(loaded.value.nodes, loaded.value.edges))

\* sorted(dates)
RECURSIVE sorted(_)
sorted(S) ==
    IF S = {} THEN <<>>
    ELSE LET least == CHOOSE x \in S : \A y \in S : x <= y
         IN  <<least>> \o sorted(S \ {least})

\* Mutant of dict_set: the item is put before the items of the dict.
dict_set_front(graphs, date, graph) == <<[date |-> date, graph |-> graph]>> \o graphs

\* graphs[date] = graph, on a dict kept as the sequence of its items in
\* insertion order: a key the dict holds keeps its place.
dict_set(graphs, date, graph) ==
    IF \E i \in DOMAIN graphs : graphs[i].date = date
        THEN [i \in DOMAIN graphs |->
                IF graphs[i].date = date
                    THEN [date |-> date, graph |-> graph] ELSE graphs[i]]
        ELSE Append(graphs, [date |-> date, graph |-> graph])

\* Mutant of restricted_graphs: a date whose build raises is left out.
RECURSIVE restricted_graphs_skipping(_, _, _, _)
restricted_graphs_skipping(dates, i, nodes, graphs) ==
    IF i > Len(dates) THEN Returned(graphs)
    ELSE LET built == build_graph(dates[i], List(nodes), 0, TRUE)
         IN  restricted_graphs_skipping(dates, i + 1, nodes,
                IF built.error # "none" THEN graphs
                ELSE dict_set(graphs, dates[i], built.value))

\* {date: self.build_graph(date, nodes) for date in dates[i:]}, graphs being the
\* items built so far: the first call that raises ends the comprehension.
RECURSIVE restricted_graphs(_, _, _, _)
restricted_graphs(dates, i, nodes, graphs) ==
    IF i > Len(dates) THEN Returned(graphs)
    ELSE LET built == build_graph(dates[i], List(nodes), 0, TRUE)
         IN  IF built.error # "none" THEN built
             ELSE restricted_graphs(dates, i + 1, nodes,
                     dict_set(graphs, dates[i], built.value))

\* dates = sorted(name[6:-4] for name in self._files if name.startswith('node'))
listed_dates == sorted({name[2] : name \in {f \in _files : f[1] = "nodes"}})

\* Mutant of build_graphs_set: the graph of every date is built by threshold.
build_graphs_set_by_threshold(min_retweeted, keep_single) ==
    LET dates == listed_dates
        built == [i \in DOMAIN dates |->
                    build_graph(dates[i], None, min_retweeted, keep_single)]
    IN  IF dates = <<>> THEN Raised("IndexError")
        ELSE IF \E i \in DOMAIN dates : built[i].error # "none"
            THEN built[CHOOSE i \in DOMAIN dates : built[i].error # "none"]
        ELSE Returned([i \in DOMAIN dates |->
                        [date |-> dates[i], graph |-> built[i].value]])

\* build_graphs_set
build_graphs_set(min_retweeted, keep_single) ==
    LET dates == listed_dates
    IN  IF dates = <<>> THEN Raised("IndexError")
        ELSE
        LET last == build_graph(dates[Len(dates)], None, min_retweeted, keep_single)
        IN  IF last.error # "none" THEN last
            ELSE
            LET graphs ==
                    restricted_graphs(SubSeq(dates, 1, Len(dates) - 1), 1,
                        last.value.nodes, <<>>)
            IN  IF graphs.error # "none" THEN graphs
                ELSE Returned(dict_set(graphs.value, dates[Len(dates)], last.value))

-----------------------------------------------------------------------------
(* The tables of datadir *)

\* A row of users.csv.
UserRow == <<2009, 1, 120, 80, 33, 2500>>

\* A row of nodes_<date>.csv of a user retweeted n_retweeted times.
NodeRow(n_retweeted) == <<3, 1, 2, n_retweeted, 25, 40, 50, 25>>

\* A row of edges_<date>.csv.
EdgeRow(src, dst) == <<2, 10, 30, 50, 50, src, dst>>

\* The users tables: any set of screen names.
UsersTables ==
    {[columns |-> UserCols, rows |-> [n \in S |-> UserRow]] : S \in SUBSET Names}

\* The nodes tables: any set of screen names, each with its n_retweeted.
NodesTables ==
    UNION {
        {[columns |-> NodeCols, rows |-> [n \in S |-> NodeRow(f[n])]] :
            f \in [S -> 0..MaxRetweeted]} : S \in SUBSET Names}

\* The edges tables: no row, or the row of one couple of screen names.
EdgesTables ==
    {[columns |-> EdgeCols \o <<"src", "dst">>,
      rows |-> [c \in S |-> EdgeRow(c[1], c[2])]] :
        S \in {{}} \cup {{c} : c \in Names \X Names}}

\* extract_data writes the tables of a date from the tweets up to that date:
\* a later nodes table has the rows of an earlier one, none retweeted less, and
\* a later edges table has the rows of an earlier one.
NodesGrow(early, late) ==
    \A n \in DOMAIN early.rows :
        /\ n \in DOMAIN late.rows
        /\ Column(early, "n_retweeted")[n] <= Column(late, "n_retweeted")[n]

EdgesGrow(early, late) == (DOMAIN early.rows) \subseteq (DOMAIN late.rows)

\* A file that is in datadir, and one that is not.
Present(data) == [exists |-> TRUE, data |-> data]
Absent == [exists |-> FALSE, data |-> <<>>]

NoCall ==
    [op |-> "none", date |-> 0, nodes_list |-> None, min_retweeted |-> 0,
     keep_single |-> TRUE]

\* No build_graphs_set is under way.
NoLocals == <<>>

\* __init__ has listed a datadir that holds the tables of these dates, and has
\* read users.csv.
InitOn(dates) ==
    /\ \E table \in UsersTables :
        /\ users_csv = Present(table)
        /\ users = table
    /\ \E tables \in [dates -> NodesTables] :
        /\ \A d1, d2 \in dates : d1 < d2 => NodesGrow(tables[d1], tables[d2])
        /\ nodes_csv = [d \in AllDates |-> IF d \in dates THEN Present(tables[d]) ELSE Absent]
    /\ \E tables \in [dates -> EdgesTables] :
        /\ \A d1, d2 \in dates : d1 < d2 => EdgesGrow(tables[d1], tables[d2])
        /\ edges_csv = [d \in AllDates |-> IF d \in dates THEN Present(tables[d]) ELSE Absent]
    /\ _files = {users_file} \cup {nodes_file(d) : d \in dates}
                    \cup {edges_file(d) : d \in dates}
    /\ pc = "idle"
    /\ call = NoCall
    /\ result = Raised("none")
    /\ locals = NoLocals

Init == InitOn(Dates)

-----------------------------------------------------------------------------
(* The calls *)

\* Mutant of BuildGraph: the merge of load_data is kept in self.users
\* (self.users = pd.merge(self.users, nodes, how='outer', ...)).
BuildGraph_merging_in_place(date, nodes_list, min_retweeted, keep_single) ==
    /\ pc = "idle"
    /\ pc' = "returned"
    /\ call' = [op |-> "build_graph", date |-> date, nodes_list |-> nodes_list,
                min_retweeted |-> min_retweeted, keep_single |-> keep_single]
    /\ result' = build_graph(date, nodes_list, min_retweeted, keep_single)
    /\ users' = IF nodes_csv[date].exists
                    THEN merge_outer(users, nodes_csv[date].data) ELSE users
    /\ UNCHANGED <<users_csv, nodes_csv, edges_csv, _files, locals>>

\* A caller calls build_graph.
BuildGraph(date, nodes_list, min_retweeted, keep_single) ==
    /\ pc = "idle"
    /\ pc' = "returned"
    /\ call' = [op |-> "build_graph", date |-> date, nodes_list |-> nodes_list,
                min_retweeted |-> min_retweeted, keep_single |-> keep_single]
    /\ result' = build_graph(date, nodes_list, min_retweeted, keep_single)
    /\ UNCHANGED <<users_csv, nodes_csv, edges_csv, _files, users, locals>>

\* A caller calls build_graphs_set.
BuildGraphsSet(min_retweeted, keep_single) ==
    /\ pc = "idle"
    /\ pc' = "returned"
    /\ call' = [op |-> "build_graphs_set", date |-> 0, nodes_list |-> None,
                min_retweeted |-> min_retweeted, keep_single |-> keep_single]
    /\ result' = build_graphs_set(min_retweeted, keep_single)
    /\ UNCHANGED <<users_csv, nodes_csv, edges_csv, _files, users, locals>>

\* The caller has taken what the call returned.
Return ==
    /\ pc = "returned"
    /\ pc' = "idle"
    /\ call' = NoCall
    /\ result' = Raised("none")
    /\ UNCHANGED <<users_csv, nodes_csv, edges_csv, _files, users, locals>>

\* Someone else removes a table from datadir between two calls.
RemoveNodesFile(date) ==
    /\ pc = "idle"
    /\ nodes_csv[date].exists
    /\ nodes_csv' = [nodes_csv EXCEPT ![date] = Absent]
    /\ UNCHANGED <<users_csv, edges_csv, _files, users, pc, call, result, locals>>

RemoveEdgesFile(date) ==
    /\ pc = "idle"
    /\ edges_csv[date].exists
    /\ edges_csv' = [edges_csv EXCEPT ![date] = Absent]
    /\ UNCHANGED <<users_csv, nodes_csv, _files, users, pc, call, result, locals>>

NodesLists == {None} \cup {List(S) : S \in SUBSET Names}

\* Calls for a date of the listing take any arguments; a call for another date
\* raises at its first read, before it looks at its other arguments, and is
\* made with their defaults.
Next ==
    \/ \E date \in Dates, nodes_list \in NodesLists,
          min_retweeted \in 0..MaxThreshold, keep_single \in BOOLEAN :
            BuildGraph(date, nodes_list, min_retweeted, keep_single)
    \/ \E date \in AllDates \ Dates : BuildGraph(date, None, 0, TRUE)
    \/ \E min_retweeted \in 0..MaxThreshold, keep_single \in BOOLEAN :
            BuildGraphsSet(min_retweeted, keep_single)
    \/ Return

\* The builder used on a datadir nobody else touches.
Spec == Init /\ [][Next]_vars

NextInterference ==
    \/ Next
    \/ \E date \in Dates : RemoveNodesFile(date)
    \/ \E date \in Dates : RemoveEdgesFile(date)

\* The builder used on a datadir from which tables are removed meanwhile.
SpecInterference == Init /\ [][NextInterference]_vars

-----------------------------------------------------------------------------
(* build_graphs_set, one build_graph at a time *)

\* build_graphs_set up to its comprehension: the dates of the listing, the
\* graph of the last date and the nodes every other graph is restricted to.
\* todo holds the dates the comprehension has yet to go through.
FamilyStart(min_retweeted, keep_single) ==
    /\ pc = "idle"
    /\ call' = [op |-> "build_graphs_set", date |-> 0, nodes_list |-> None,
                min_retweeted |-> min_retweeted, keep_single |-> keep_single]
    /\ LET dates == listed_dates
           last == build_graph(dates[Len(dates)], None, min_retweeted, keep_single)
       IN  IF dates = <<>>
               THEN /\ pc' = "returned"
                    /\ result' = Raised("IndexError")
                    /\ locals' = NoLocals
           ELSE IF last.error # "none"
               THEN /\ pc' = "returned"
                    /\ result' = last
                    /\ locals' = NoLocals
           ELSE /\ pc' = "building"
                /\ result' = Raised("none")
                /\ locals' = [dates |-> dates, last |-> last.value,
                              nodes |-> last.value.nodes, graphs |-> <<>>,
                              todo |-> Range(SubSeq(dates, 1, Len(dates) - 1))]
    /\ UNCHANGED <<users_csv, nodes_csv, edges_csv, _files, users>>

\* Mutant of FamilyBuildDate: the next graph is restricted to the nodes of
\* the graph just built (nodes = list(graph.nodes) inside the loop).
FamilyBuildDate_chained(date) ==
    /\ pc = "building"
    /\ date \in locals.todo
    /\ LET built == build_graph(date, List(locals.nodes), 0, TRUE)
       IN  IF built.error # "none"
               THEN /\ pc' = "returned"
                    /\ result' = built
                    /\ locals' = NoLocals
           ELSE /\ locals' = [locals EXCEPT
                        !.graphs = dict_set(locals.graphs, date, built.value),
                        !.nodes = built.value.nodes,
                        !.todo = locals.todo \ {date}]
                /\ UNCHANGED <<pc, result>>
    /\ UNCHANGED <<users_csv, nodes_csv, edges_csv, _files, users, call>>

\* One item of the comprehension, self.build_graph(date, nodes), for a date it
\* has yet to go through, taken in any order.
FamilyBuildDate(date) ==
    /\ pc = "building"
    /\ date \in locals.todo
    /\ LET built == build_graph(date, List(locals.nodes), 0, TRUE)
       IN  IF built.error # "none"
               THEN /\ pc' = "returned"
                    /\ result' = built
                    /\ locals' = NoLocals
           ELSE /\ locals' = [locals EXCEPT
                        !.graphs = dict_set(locals.graphs, date, built.value),
                        !.todo = locals.todo \ {date}]
                /\ UNCHANGED <<pc, result>>
    /\ UNCHANGED <<users_csv, nodes_csv, edges_csv, _files, users, call>>

\* graphs[dates[-1]] = last; return graphs
FamilyEnd ==
    /\ pc = "building"
    /\ locals.todo = {}
    /\ pc' = "returned"
    /\ result' = Returned(dict_set(locals.graphs,
                    locals.dates[Len(locals.dates)], locals.last))
    /\ locals' = NoLocals
    /\ UNCHANGED <<users_csv, nodes_csv, edges_csv, _files, users, call>>

\* The calls keep unlinked nodes: keep_single acts on the graph of the last
\* date only, before any other is built, and the thresholds already make any
\* set of users of its nodes table the nodes of that graph.
NextAnyOrder ==
    \/ \E min_retweeted \in 0..MaxThreshold : FamilyStart(min_retweeted, TRUE)
    \/ \E date \in AllDates : FamilyBuildDate(date)
    \/ FamilyEnd
    \/ Return

\* build_graphs_set on a datadir with tables for every date of AllDates, the
\* graphs of the dates before the last being built in any order.
SpecAnyOrder == InitOn(AllDates) /\ [][NextAnyOrder]_vars

-----------------------------------------------------------------------------
(* MeTooGraphDrawer *)

\* self.node_size_limits and self.edge_size_limits as __init__ sets them when
\* the caller passes none.
node_size_limits == <<5, 100>>
edge_size_limits == <<1, 10>>

\* An assignment, name = value: the value is computed once and the statements
\* after it, rest, read what it gave.
Once(value, rest(_)) == CHOOSE after \in {rest(name) : name \in {value}} : TRUE

\* Numbers are integers.  A Series is a record [values, unit]: values maps each
\* node or edge to an integer that counts units of 1/unit (unit is 1, or
\* 100000 once np.log was taken).  Node sizes are whole numbers; edge widths
\* and colors, which the drawer rounds to two decimals, are hundredths.

\* None where the name of an attribute or of a colormap may stand.
NoName == "None"

\* The screen names in the order pandas sorts an index, which is the order
\* in which build_graph adds the nodes, and the edges of a node, to a graph.
Alphabetical == <<"a", "b">>

Rank(name) == CHOOSE i \in DOMAIN Alphabetical : Alphabetical[i] = name

\* getattr(graph, kind): the nodes or the edges with their attribute dicts.
view(graph, kind) == IF kind = "nodes" THEN graph.attrs ELSE graph.eattrs

\* x comes no later than y when the view is listed.
ListedBefore(x, y, kind) ==
    IF kind = "nodes" THEN Rank(x) <= Rank(y)
    ELSE \/ Rank(x[1]) < Rank(y[1])
         \/ Rank(x[1]) = Rank(y[1]) /\ Rank(x[2]) <= Rank(y[2])

\* list(view)[0], for a view that is not empty.
first(graph, kind) ==
    CHOOSE x \in DOMAIN view(graph, kind) :
        \A y \in DOMAIN view(graph, kind) : ListedBefore(x, y, kind)

\* nx.get_node_attributes and nx.get_edge_attributes: the value of the
\* attribute for the nodes or edges that have it.
get_attributes(graph, attribute, kind) ==
    LET dicts == view(graph, kind)
    IN  [x \in {y \in DOMAIN dicts : attribute \in DOMAIN dicts[y]} |->
            dicts[x][attribute]]

\* Series.min() and Series.max(): missing cells are skipped, and the result
\* is missing when nothing is left.
min(cells) ==
    IF cells \ {NaN} = {} THEN NaN
    ELSE CHOOSE c \in cells \ {NaN} : \A d \in cells \ {NaN} : c <= d

max(cells) ==
    IF cells \ {NaN} = {} THEN NaN
    ELSE CHOOSE c \in cells \ {NaN} : \A d \in cells \ {NaN} : c >= d

\* np.log in hundred-thousandths, for the numbers the tables hold.
log(v) ==
    CASE v = 1 -> 0
      [] v = 2 -> 69315
      [] v = 3 -> 109861
      [] v = 4 -> 138629
      [] v = 10 -> 230259
      [] v = 25 -> 321888
      [] v = 30 -> 340120
      [] v = 33 -> 349651
      [] v = 40 -> 368888
      [] v = 50 -> 391202
      [] v = 80 -> 438203
      [] v = 120 -> 478749
      [] v = 2009 -> 760539
      [] v = 2500 -> 782405

\* num / den rounded to a whole number as numpy rounds: to the nearest, and
\* to the even one when two are as near.
round(num, den) ==
    LET n == IF den < 0 THEN 0 - num ELSE num
        d == IF den < 0 THEN 0 - den ELSE den
        q == n \div d
        r == n % d
    IN  IF 2 * r < d THEN q
        ELSE IF 2 * r > d THEN q + 1
        ELSE IF q % 2 = 0 THEN q ELSE q + 1

\* _get_values
_get_values(graph, attribute, log_values, kind) ==
    IF DOMAIN view(graph, kind) = {} THEN Raised("IndexError")
    ELSE IF attribute \notin DOMAIN view(graph, kind)[first(graph, kind)]
        THEN RaisedAbout("KeyError", attribute)
    ELSE
    Once(get_attributes(graph, attribute, kind), LAMBDA values :
    \* values[values > -1].min()
    Once(min({values[x] : x \in {y \in DOMAIN values : values[y] > -1}}),
         LAMBDA least :
    \* values[values == -1] = ...
    Once([x \in DOMAIN values |-> IF values[x] = -1 THEN least ELSE values[x]],
         LAMBDA replaced :
        IF log_values
            THEN Returned(
                    [values |-> [x \in DOMAIN values |->
                        IF replaced[x] = NaN THEN NaN
                        ELSE IF replaced[x] < 1 THEN log(1)
                        ELSE log(replaced[x])],
                     unit |-> 100000])
            ELSE Returned([values |-> replaced, unit |-> 1]))))

\* low + (sizes - sizes.min()) * (high - low) / sizes.max(), rounded to a
\* multiple of 1/per_unit.  A division by zero or of a missing cell gives no
\* finite number: NaN stands for it.
scale(sizes, limits, per_unit) ==
    LET low == limits[1]
        high == limits[2]
    IN  Once({sizes[x] : x \in DOMAIN sizes}, LAMBDA cells :
        Once(min(cells), LAMBDA least :
        Once(max(cells), LAMBDA most :
            [x \in DOMAIN sizes |->
                IF sizes[x] = NaN \/ most = NaN \/ most = 0 THEN NaN
                ELSE low * per_unit
                     + round(per_unit * (sizes[x] - least) * (high - low),
                            most)])))

\* _get_node_size: astype(int) raises on a cell that is no finite number.
_get_node_size(graph, attribute, log_values) ==
    IF attribute = NoName THEN Returned(25)
    ELSE
    Once(_get_values(graph, attribute, log_values, "nodes"), LAMBDA sizes :
        IF sizes.error # "none" THEN sizes
        ELSE Once(scale(sizes.value.values, node_size_limits, 1),
                  LAMBDA scaled :
                 IF \E x \in DOMAIN scaled : scaled[x] = NaN
                     THEN Raised("ValueError")
                     ELSE Returned(scaled)))

\* _get_edge_size: widths in hundredths (1.0 is 100).
_get_edge_size(graph, attribute, log_values) ==
    IF attribute = NoName \/ graph.edges = {} THEN Returned(100)
    ELSE
    Once(_get_values(graph, attribute, log_values, "edges"), LAMBDA sizes :
        IF sizes.error # "none" THEN sizes
        ELSE Returned(scale(sizes.value.values, edge_size_limits, 100)))

\* _get_colors: the colors in hundredths, and the colormap.
_get_colors(graph, attribute, log_values, kind) ==
    Once(_get_values(graph, attribute, log_values, kind), LAMBDA colors :
        IF colors.error # "none" THEN colors
        ELSE
        LET values == colors.value.values
            colormap ==
                IF \E x \in DOMAIN values : values[x] # NaN /\ values[x] < 0
                    THEN "seismic" ELSE "hot_r"
        IN  Returned(
                <<[x \in DOMAIN values |->
                    IF values[x] = NaN THEN NaN
                    ELSE IF colors.value.unit = 1 THEN 100 * values[x]
                    ELSE round(values[x], 1000)],
                  colormap>>))

\* _get_node_color
_get_node_color(graph, attribute, log_values) ==
    IF attribute = NoName THEN Returned(<<"red", NoName>>)
    ELSE _get_colors(graph, attribute, log_values, "nodes")

\* _get_edge_color
_get_edge_color(graph, attribute, log_values) ==
    IF attribute = NoName \/ graph.edges = {} THEN Returned(<<"grey", NoName>>)
    ELSE _get_colors(graph, attribute, log_values, "edges")

\* A networkx layout: a position for every node of the graph, and for no
\* other.
layout(graph) == [n \in graph.nodes |-> <<"position", n>>]

\* What a caller asks of draw_graph: the attributes to size and color nodes
\* and edges by (NoName for none) and the log_<element>_<type> keyword
\* arguments it passes as True.
Request(node_size, node_color, edge_size, edge_color, kwargs) ==
    [node_size |-> node_size, node_color |-> node_color,
     edge_size |-> edge_size, edge_color |-> edge_color, kwargs |-> kwargs]

\* draw_graph: positions is None or a list of one item, the positions given;
\* nx.draw raises NetworkXError for a node without position.
draw_graph(graph, request, positions) ==
    Once(_get_node_size(graph, request.node_size,
            "log_node_size" \in request.kwargs), LAMBDA node_size :
    IF node_size.error # "none" THEN node_size ELSE
    Once(_get_node_color(graph, request.node_color,
            "log_node_color" \in request.kwargs), LAMBDA node_color :
    IF node_color.error # "none" THEN node_color ELSE
    Once(IF positions = None THEN layout(graph) ELSE positions[1], LAMBDA pos :
    Once(_get_edge_size(graph, request.edge_size,
            "log_edge_size" \in request.kwargs), LAMBDA edge_size :
    IF edge_size.error # "none" THEN edge_size ELSE
    Once(_get_edge_color(graph, request.edge_color,
            "log_edge_color" \in request.kwargs), LAMBDA edge_color :
    IF edge_color.error # "none" THEN edge_color ELSE
    IF \E n \in graph.nodes : n \notin DOMAIN pos
        THEN Raised("NetworkXError")
        ELSE
        LET node_cmap == node_color.value[2]
            edge_cmap == edge_color.value[2]
        IN  Returned(
                [pos |-> [n \in graph.nodes |-> pos[n]],
                 node_size |-> node_size.value,
                 node_color |-> node_color.value[1],
                 width |-> edge_size.value,
                 edge_color |-> edge_color.value[1],
                 colorbars |->
                    (IF node_cmap # NoName THEN <<node_cmap>> ELSE <<>>)
                    \o (IF edge_cmap # NoName /\ edge_cmap # node_cmap
                            THEN <<edge_cmap>> ELSE <<>>)]))))))

\* Mutant of layout_of: the positions are those of the first graph.
layout_of_first(graphs) == layout(graphs[1].graph)

\* positions = layout(graphs[list(graphs)[-1]])
layout_of(graphs) == layout(graphs[Len(graphs)].graph)

\* for date, graph in graphs.items(): draw the graph and save the figure as
\* 'network_%s.png' % date.  images are the files saved so far; the call that
\* raises leaves them in imagedir.
RECURSIVE save_figures(_, _, _, _, _)
save_figures(graphs, i, request, positions, images) ==
    IF i > Len(graphs) THEN [error |-> "none", value |-> None, images |-> images]
    ELSE Once(draw_graph(graphs[i].graph, request, positions), LAMBDA figure :
             IF figure.error # "none"
                 THEN [error |-> figure.error, value |-> figure.value,
                       images |-> images]
             ELSE save_figures(graphs, i + 1, request, positions,
                     Append(images, [date |-> graphs[i].date,
                                     figure |-> figure.value])))

\* draw_graphs_set: it returns None; images are the files it saved and video
\* tells whether it made video.mp4 of them.
draw_graphs_set(graphs, video, request, VIDEO_FEATURES) ==
    IF graphs = <<>> THEN
        [error |-> "IndexError", value |-> <<>>, images |-> <<>>, video |-> FALSE]
    ELSE
    Once(save_figures(graphs, 1, request, <<layout_of(graphs)>>, <<>>),
         LAMBDA saved :
        [error |-> saved.error, value |-> saved.value, images |-> saved.images,
         video |-> saved.error = "none" /\ video /\ VIDEO_FEATURES])

\* What the callers of the model ask the drawer for.
Requests ==
    { Request(NoName, NoName, NoName, NoName, {}),
      Request("n_retweeted", "sentiment_avg", "n_retweets", "sentiment_avg", {}),
      Request("followers_count", "verified", "n_retweets", "share_positive",
          {"log_node_size", "log_node_color", "log_edge_size", "log_edge_color"}),
      Request("created_at", NoName, NoName, NoName, {}),
      Request(NoName, "created_at", NoName, NoName, {"log_node_color"}),
      Request(NoName, NoName, "n_retweeted", NoName, {}) }

\* A caller draws the graph build_graph has just returned to it.
DrawGraph(request) ==
    /\ pc = "returned"
    /\ call.op = "build_graph"
    /\ result.error = "none"
    /\ pc' = "drawn"
    /\ call' = [op |-> "draw_graph", graph |-> result.value, request |-> request]
    /\ result' = draw_graph(result.value, request, None)
    /\ UNCHANGED <<users_csv, nodes_csv, edges_csv, _files, users, locals>>

\* A caller draws the dict build_graphs_set has just returned to it; cv2 is
\* installed or not.
DrawGraphsSet(request, video, VIDEO_FEATURES) ==
    /\ pc = "returned"
    /\ call.op = "build_graphs_set"
    /\ result.error = "none"
    /\ pc' = "drawn"
    /\ call' = [op |-> "draw_graphs_set", graphs |-> result.value,
                request |-> request, video |-> video]
    /\ result' = draw_graphs_set(result.value, video, request, VIDEO_FEATURES)
    /\ UNCHANGED <<users_csv, nodes_csv, edges_csv, _files, users, locals>>

\* The caller has taken what the drawer returned.
Drawn ==
    /\ pc = "drawn"
    /\ pc' = "idle"
    /\ call' = NoCall
    /\ result' = Raised("none")
    /\ UNCHANGED <<users_csv, nodes_csv, edges_csv, _files, users, locals>>

\* The single graphs drawn are built by threshold, unlinked nodes kept: any
\* set of users of a nodes table, the empty one too, is the node set of one of
\* them.
NextDraw ==
    \/ \E date \in Dates, min_retweeted \in 0..MaxThreshold :
            BuildGraph(date, None, min_retweeted, TRUE)
    \/ \E min_retweeted \in 0..MaxThreshold, keep_single \in BOOLEAN :
            BuildGraphsSet(min_retweeted, keep_single)
    \/ \E request \in Requests : DrawGraph(request)
    \/ \E request \in Requests, video \in BOOLEAN, VIDEO_FEATURES \in BOOLEAN :
            DrawGraphsSet(request, video, VIDEO_FEATURES)
    \/ Return
    \/ Drawn

\* The builder and the drawer: what is built is drawn.
SpecDraw == Init /\ [][NextDraw]_vars

-----------------------------------------------------------------------------
(* What the properties speak of *)

\* build_graph has returned a graph.
GraphReturned ==
    pc = "returned" /\ call.op = "build_graph" /\ result.error = "none"

\* build_graphs_set has returned its dict of graphs.
FamilyReturned ==
    pc = "returned" /\ call.op = "build_graphs_set" /\ result.error = "none"

\* The graphs a call has just returned.
ReturnedGraphs ==
    IF GraphReturned THEN {result.value}
    ELSE IF FamilyReturned
        THEN {result.value[i].graph : i \in DOMAIN result.value}
    ELSE {}

\* The last graph of a returned dict, and the positions before it.
Terminal(graphs) == graphs[Len(graphs)].graph
Earlier(graphs) == 1..(Len(graphs) - 1)

\* The screen names with a row in the static user table.
KnownUsers == DOMAIN users.rows

\* The screen names with a row in the nodes table of a date.
ActiveUsers(date) == DOMAIN nodes_csv[date].data.rows

\* n_retweeted in the row of a screen name in the nodes table of a date.
Retweeted(date, n) == Column(nodes_csv[date].data, "n_retweeted")[n]

\* The (src, dst) couples of the edges table of a date.
Couples(date) == DOMAIN edges_csv[date].data.rows

\* The edges of a set of edges that have n as source or destination.
EdgesAt(edges, n) == {e \in edges : e[1] = n \/ e[2] = n}

\* The attributes build_graph sets on a node, in the order it sets them.
NodeAttrs == Tail(UserCols \o NodeCols)

-----------------------------------------------------------------------------
\* C1 (P1, no dangling edges): in every graph build_graph returns and every
\* graph of a dict build_graphs_set returns, both ends of every edge are nodes
\* of the graph, and they are nodes taken from the node table (they carry its
\* attributes), not nodes add_edges_from had to create for the edge.
NoDanglingEdges ==
    \A g \in ReturnedGraphs :
        \A e \in g.edges :
            /\ e[1] \in g.nodes /\ g.attrs[e[1]] # EmptyDict
            /\ e[2] \in g.nodes /\ g.attrs[e[2]] # EmptyDict

\* C1 witness: a graph with an edge was returned while a user with a row in
\* the date's nodes table was trimmed off and is no node of it.
NoDanglingEdgesWitness ==
    /\ GraphReturned
    /\ result.value.edges # {}
    /\ \E n \in ActiveUsers(call.date) : n \notin result.value.nodes

\* C2 as stated (P2): every graph of a returned dict but the last has exactly
\* the node set of the last.
FamilyNodesEqualTerminal ==
    FamilyReturned =>
        \A i \in Earlier(result.value) :
            result.value[i].graph.nodes = Terminal(result.value).nodes

\* C2 amended: every graph of a returned dict but the last has as nodes the
\* nodes of the last graph that have a row in the static user table or in the
\* nodes table of its date, and no other.
FamilyNodesWithinTerminal ==
    FamilyReturned =>
        \A i \in Earlier(result.value) :
            result.value[i].graph.nodes =
                Terminal(result.value).nodes
                    \cap (KnownUsers \cup ActiveUsers(result.value[i].date))

\* C2 witness: a dict was returned in which an earlier graph has a node and
\* lacks a node of the last graph.
FamilyNodesWithinTerminalWitness ==
    /\ FamilyReturned
    /\ \E i \in Earlier(result.value) :
        /\ result.value[i].graph.nodes # {}
        /\ result.value[i].graph.nodes # Terminal(result.value).nodes

\* A node of the returned graph with a row in the static user table and none
\* in the nodes table of the date.
InactiveKnownNodes ==
    {n \in result.value.nodes : n \in KnownUsers /\ n \notin ActiveUsers(call.date)}

\* C3 as stated (P3): a node with a row in the static user table and none in
\* the nodes table of the date has its first six attributes equal to -1 and
\* the others equal to 0.
InactiveNodeFilledMinusOne ==
    GraphReturned =>
        \A n \in InactiveKnownNodes :
            \A i \in DOMAIN NodeAttrs :
                result.value.attrs[n][NodeAttrs[i]] = IF i <= 6 THEN -1 ELSE 0

\* C3 amended: a node with a row in the static user table and none in the
\* nodes table of the date has every activity attribute equal to 0, and its
\* user attributes are those of its row in the user table (-1 only where that
\* row has no value).
InactiveNodeKeepsUserRow ==
    GraphReturned =>
        \A n \in InactiveKnownNodes :
            /\ \A attr \in Range(NodeCols) : result.value.attrs[n][attr] = 0
            /\ \A attr \in Range(Tail(UserCols)) :
                result.value.attrs[n][attr] = fillna(Column(users, attr)[n], -1)

\* C3 witness: a graph was returned with such a node.
InactiveNodeKeepsUserRowWitness == GraphReturned /\ InactiveKnownNodes # {}

\* C4 (Scenario C): build_graph for a date whose table was not in the listing
\* of datadir, and is not in datadir, raises the lookup error (KeyError).
NeverListedRaisesKeyError ==
    ( /\ pc = "returned" /\ call.op = "build_graph"
      /\ nodes_file(call.date) \notin _files
      /\ ~nodes_csv[call.date].exists )
        => result.error = "KeyError"

\* C5 (TableVanished): build_graph for a date whose table was in the listing
\* of datadir and is no longer in datadir raises the integrity error
\* (RuntimeError).
VanishedRaisesRuntimeError ==
    ( /\ pc = "returned" /\ call.op = "build_graph"
      /\ nodes_file(call.date) \in _files
      /\ ~nodes_csv[call.date].exists )
        => result.error = "RuntimeError"

\* The dict was built by build_graphs_set(0, True): a node of the last graph
\* and an earlier position at whose date the node has no row in the nodes table.
LateComers ==
    {<<i, n>> \in Earlier(result.value) \X Terminal(result.value).nodes :
        n \notin ActiveUsers(result.value[i].date)}

DefaultFamilyReturned ==
    FamilyReturned /\ call.min_retweeted = 0 /\ call.keep_single

\* C6 as stated (Scenario A): in a dict built with threshold 0 and
\* keep_single true, a node of the last graph without row in the nodes table
\* of an earlier date is a node of that date's graph, no edge of that graph
\* has it as source or destination, and its activity attributes are 0.
LateComerIsIsolatedNode ==
    DefaultFamilyReturned =>
        \A c \in LateComers :
            LET g == result.value[c[1]].graph
            IN  /\ c[2] \in g.nodes
                /\ EdgesAt(g.edges, c[2]) = {}
                /\ \A attr \in Range(NodeCols) : g.attrs[c[2]][attr] = 0

\* C6 amended: such a node is a node of the earlier date's graph exactly when
\* it has a row in the static user table; its activity attributes are then 0,
\* and the edges of that graph at it are the couples of that date's edges
\* table that link it to a node of the last graph with a row in the user
\* table or in that date's nodes table (it is isolated when the table has
\* none).
LateComerIsKnownNode ==
    DefaultFamilyReturned =>
        \A c \in LateComers :
            LET g == result.value[c[1]].graph
                all == Terminal(result.value).nodes
                        \cap (KnownUsers \cup ActiveUsers(result.value[c[1]].date))
            IN  /\ c[2] \in g.nodes <=> c[2] \in KnownUsers
                /\ c[2] \in g.nodes =>
                    /\ \A attr \in Range(NodeCols) : g.attrs[c[2]][attr] = 0
                    /\ EdgesAt(g.edges, c[2]) =
                        {e \in EdgesAt(Couples(result.value[c[1]].date), c[2]) :
                            e[1] \in all /\ e[2] \in all}

\* C6 witness: a dict was returned in which such a node is a node of the
\* earlier graph and an end of one of its edges.
LateComerIsKnownNodeWitness ==
    /\ DefaultFamilyReturned
    /\ \E c \in LateComers :
        /\ c[2] \in result.value[c[1]].graph.nodes
        /\ EdgesAt(result.value[c[1]].graph.edges, c[2]) # {}

\* The users retweeted at least t times by a date, and the couples of the
\* edges table of the date between two of them.
RetweetedEnough(date, t) == {n \in ActiveUsers(date) : Retweeted(date, n) >= t}
KeptCouples(date, t) ==
    {e \in Couples(date) :
        e[1] \in RetweetedEnough(date, t) /\ e[2] \in RetweetedEnough(date, t)}

\* build_graph(date, None, t, False) has returned a graph.
ConnectedGraphReturned ==
    GraphReturned /\ call.nodes_list = None /\ ~call.keep_single

\* C7 (Scenario B): build_graph without node list, with threshold t and
\* keep_single false returns as nodes exactly the users retweeted at least t
\* times by the date that are an end of an edge kept (an edge between two such
\* users); a user retweeted enough but at no kept edge is no node.
ConnectedNodesExact ==
    ConnectedGraphReturned =>
        result.value.nodes =
            {n \in RetweetedEnough(call.date, call.min_retweeted) :
                EdgesAt(KeptCouples(call.date, call.min_retweeted), n) # {}}

\* C7 witness: such a graph was returned with a node, for a threshold above 0,
\* while a user retweeted enough is no node of it.
ConnectedNodesExactWitness ==
    /\ ConnectedGraphReturned
    /\ call.min_retweeted > 0
    /\ result.value.nodes # {}
    /\ RetweetedEnough(call.date, call.min_retweeted) \ result.value.nodes # {}

\* The nodes of the graph of the last date that the same call would have
\* returned with threshold t.
TerminalNodesWith(t) ==
    IF call.op = "build_graph"
        THEN build_graph(call.date, None, t, call.keep_single).value.nodes
        ELSE Terminal(build_graphs_set(t, call.keep_single).value).nodes

\* The nodes of the graph the call built by threshold.
TerminalNodes ==
    IF call.op = "build_graph" THEN result.value.nodes
    ELSE Terminal(result.value).nodes

\* A call has returned a graph built by threshold.
ThresholdGraphReturned ==
    \/ GraphReturned /\ call.nodes_list = None
    \/ FamilyReturned

\* C8 (P4, threshold monotonicity): on the same tables and with the same
\* keep_single, the graph built by threshold t2 has as nodes a subset of the
\* nodes of the graph built by any threshold t1 <= t2.
ThresholdMonotone ==
    ThresholdGraphReturned =>
        \A t1 \in 0..call.min_retweeted : TerminalNodes \subseteq TerminalNodesWith(t1)

\* C8 witness: a graph built by a threshold above 0 was returned with a node,
\* and threshold 0 gives a node more.
ThresholdMonotoneWitness ==
    /\ ThresholdGraphReturned
    /\ call.min_retweeted > 0
    /\ TerminalNodes # {}
    /\ TerminalNodesWith(0) # TerminalNodes

\* build_graph has returned a graph for a node list.
ListedGraphReturned == GraphReturned /\ call.nodes_list # None

\* C9 (P5): with a node list, build_graph returns, whatever keep_single and
\* the threshold are, the graph (nodes, edges and attributes) it returns with
\* keep_single true and threshold 0, and every listed name with a row in the
\* user table or in the nodes table of the date is a node, with or without
\* edges.
ListedGraphIgnoresPolicy ==
    ListedGraphReturned =>
        /\ build_graph(call.date, call.nodes_list, 0, TRUE).value = result.value
        /\ result.value.nodes =
            call.nodes_list[1] \cap (KnownUsers \cup ActiveUsers(call.date))

\* C9 witness: build_graph with a node list and keep_single false returned a
\* graph with a node that is at no edge and was retweeted less than the
\* threshold of the call.
ListedGraphIgnoresPolicyWitness ==
    /\ ListedGraphReturned
    /\ ~call.keep_single
    /\ \E n \in result.value.nodes :
        /\ EdgesAt(result.value.edges, n) = {}
        /\ n \in ActiveUsers(call.date)
        /\ Retweeted(call.date, n) < call.min_retweeted

\* The dates of the nodes tables in the listing of datadir.
ListedDates == {f[2] : f \in {f \in _files : f[1] = "nodes"}}

\* C10: the dict build_graphs_set returns has one item per date of the
\* listing of datadir and no other, and its items are in strictly increasing
\* order of date, the latest date last.
FamilyDatesInOrder ==
    FamilyReturned =>
        /\ {result.value[i].date : i \in DOMAIN result.value} = ListedDates
        /\ Len(result.value) = Cardinality(ListedDates)
        /\ \A i, j \in DOMAIN result.value :
            i < j => result.value[i].date < result.value[j].date
        /\ \A d \in ListedDates : d <= result.value[Len(result.value)].date

\* C10 witness: a dict of more than one graph was returned.
FamilyDatesInOrderWitness == FamilyReturned /\ Len(result.value) > 1

\* build_graphs_set has returned or raised.
FamilyCallEnded == pc = "returned" /\ call.op = "build_graphs_set"

\* The tables build_graphs_set reads, in the order it reads them: those of the
\* latest date of the listing, then those of the other dates from the earliest
\* on; for each date the nodes table, then the edges table.
ReadRank(filename) ==
    LET latest == CHOOSE d \in ListedDates : \A e \in ListedDates : e <= d
        before == IF filename[2] = latest THEN 0
                  ELSE 1 + Cardinality({d \in ListedDates : d < filename[2]})
    IN  2 * before + (IF filename[1] = "nodes" THEN 0 ELSE 1)

\* The tables of the listing that are no longer in datadir.
MissingTables == {f \in _files \ {users_file} : ~FileAt(f).exists}

\* C11: build_graphs_set returns a dict, with one graph per date of the
\* listing, only when no table of the listing is missing from datadir;
\* otherwise it raises, returns no dict, and the error is the one of the
\* first table it fails to read (it names that table).
FamilyAllOrNothing ==
    FamilyCallEnded =>
        IF MissingTables = {}
            THEN /\ result.error = "none"
                 /\ {result.value[i].date : i \in DOMAIN result.value} = ListedDates
            ELSE /\ result.error # "none"
                 /\ result.value \in MissingTables
                 /\ \A f \in MissingTables : ReadRank(result.value) <= ReadRank(f)

\* C11 witness: build_graphs_set raised while tables of two dates of the
\* listing were missing from datadir.
FamilyAllOrNothingWitness ==
    /\ FamilyCallEnded
    /\ result.error # "none"
    /\ \E f, g \in MissingTables : f[2] # g[2]

\* What the call that has just returned returns when it is made again.
SameCallAgain ==
    IF call.op = "build_graph"
        THEN build_graph(call.date, call.nodes_list, call.min_retweeted,
                call.keep_single)
        ELSE build_graphs_set(call.min_retweeted, call.keep_single)

\* C13: on a datadir nobody else touches, whatever calls were made and
\* whether they returned or raised, self.users is the table of users.csv that
\* __init__ read and self._files the listing __init__ took; and a call that
\* has ended gives, made again with the same arguments from the state it
\* left, what it gave.
BuilderStateWriteOnce ==
    /\ users = users_csv.data
    /\ _files = {users_file} \cup {nodes_file(d) : d \in Dates}
                    \cup {edges_file(d) : d \in Dates}
    /\ pc = "returned" => result = SameCallAgain

\* C13 witness: a call returned a graph with a node that has no row in
\* self.users (the merge added its row and fillna filled it), self.users
\* having rows.
BuilderStateWriteOnceWitness ==
    /\ GraphReturned
    /\ KnownUsers # {}
    /\ result.value.nodes \ KnownUsers # {}

\* C14: in a dict build_graphs_set returns, the threshold and keep_single
\* decide the nodes of the graph of the last date only: these are the users
\* retweeted min_retweeted times or more by the last date (with keep_single
\* false, those of them at an edge between two of them).  Every node of the
\* last graph with a row in the nodes table of an earlier date is a node of
\* that date's graph, however little it was retweeted by that date and
\* whether an edge of that date links it or not.
FamilyThresholdOnLastOnly ==
    FamilyReturned =>
        LET graphs == result.value
            last == graphs[Len(graphs)].date
            t == call.min_retweeted
        IN  /\ Terminal(graphs).nodes =
                {n \in RetweetedEnough(last, t) :
                    call.keep_single \/ EdgesAt(KeptCouples(last, t), n) # {}}
            /\ \A i \in Earlier(graphs) :
                    Terminal(graphs).nodes \cap ActiveUsers(graphs[i].date)
                        \subseteq graphs[i].graph.nodes

\* C14 witness: a dict built with a threshold above 0 and keep_single false
\* was returned in which an earlier graph has a node retweeted less than the
\* threshold by its date and at no edge of it.
FamilyThresholdOnLastOnlyWitness ==
    /\ FamilyReturned
    /\ call.min_retweeted > 0
    /\ ~call.keep_single
    /\ \E i \in Earlier(result.value) :
        \E n \in result.value[i].graph.nodes \cap ActiveUsers(result.value[i].date) :
            /\ Retweeted(result.value[i].date, n) < call.min_retweeted
            /\ EdgesAt(result.value[i].graph.edges, n) = {}

\* The users the node selection of load_data keeps before any trimming of
\* unlinked nodes: with a node list, the listed names with a row in the user
\* table or in the nodes table of the date; without, the users retweeted
\* min_retweeted times or more by the date.
PrimarySelection(date, nodes_list, min_retweeted) ==
    IF nodes_list = None THEN RetweetedEnough(date, min_retweeted)
    ELSE nodes_list[1] \cap (KnownUsers \cup ActiveUsers(date))

\* The couples of the edges table of a date between two users of a set.
CouplesWithin(date, selected) ==
    {e \in Couples(date) : e[1] \in selected /\ e[2] \in selected}

\* C15: the edges of a graph build_graph returns, and of every graph of a
\* dict build_graphs_set returns, are the (src, dst) couples of the edges
\* table of its date whose source and destination are both kept by the node
\* selection (by threshold, or by node list), all of them and no other.
EdgesExact ==
    /\ GraphReturned =>
        result.value.edges =
            CouplesWithin(call.date,
                PrimarySelection(call.date, call.nodes_list, call.min_retweeted))
    /\ FamilyReturned =>
        LET graphs == result.value
        IN  \A i \in DOMAIN graphs :
                graphs[i].graph.edges =
                    CouplesWithin(graphs[i].date,
                        IF i = Len(graphs)
                            THEN PrimarySelection(graphs[i].date, None,
                                    call.min_retweeted)
                            ELSE PrimarySelection(graphs[i].date,
                                    List(Terminal(graphs).nodes), 0))

\* C15 witness: a dict was returned whose last graph has an edge, while the
\* edges table of an earlier date has a couple that is no edge of that date's
\* graph.
EdgesExactWitness ==
    /\ FamilyReturned
    /\ Terminal(result.value).edges # {}
    /\ \E i \in Earlier(result.value) :
        Couples(result.value[i].date) \ result.value[i].graph.edges # {}

\* C16: every node of a returned graph carries every column of the merged
\* node table as an attribute: the six columns of the user table (created_at
\* among them) and every column of the nodes table of the date; and every
\* edge carries every statistic column of the edges table.
AttributesTotal ==
    \A g \in ReturnedGraphs :
        /\ \A n \in g.nodes :
                Range(UserCols) \cup Range(NodeCols) \subseteq DOMAIN g.attrs[n]
        /\ \A e \in g.edges : Range(EdgeCols) \subseteq DOMAIN g.eattrs[e]

\* build_graph(date) has returned a graph: no node list, threshold 0 and
\* keep_single true.
DefaultGraphReturned ==
    /\ GraphReturned
    /\ call.nodes_list = None /\ call.min_retweeted = 0 /\ call.keep_single

\* C17: build_graph without node list, with threshold 0 and keep_single true
\* keeps every user of the static user table as a node, also a user without
\* row in the nodes table of the date.
DefaultKeepsEveryUser == DefaultGraphReturned => KnownUsers \subseteq result.value.nodes

\* C18 as stated: every node of every returned graph is a screen name of the
\* static user table.
NodesAreKnownUsers == \A g \in ReturnedGraphs : g.nodes \subseteq KnownUsers

\* C18 amended: every node of a graph build_graph returns is a screen name of
\* the static user table or of the nodes table of the date.  A screen name
\* that is in the nodes table only is a node whenever the selection keeps it
\* (always, without node list, with threshold 0 and keep_single true), and
\* the user attributes of such a node are -1.
NodesAreKnownOrActive ==
    GraphReturned =>
        /\ result.value.nodes \subseteq KnownUsers \cup ActiveUsers(call.date)
        /\ DefaultGraphReturned => ActiveUsers(call.date) \subseteq result.value.nodes
        /\ \A n \in result.value.nodes \ KnownUsers :
                \A attr \in Range(Tail(UserCols)) : result.value.attrs[n][attr] = -1

\* C18 witness: a graph was returned with a node that has no row in the
\* static user table, the table having a row for another node of the graph.
NodesAreKnownOrActiveWitness ==
    /\ GraphReturned
    /\ result.value.nodes \ KnownUsers # {}
    /\ result.value.nodes \cap KnownUsers # {}

\* C19: when the graphs of the dates before the last are built one at a time
\* in any order, build_graphs_set returns the mapping from date to graph of
\* the build in ascending order of date: one graph per date of the listing,
\* the last date's being the one build_graph returns by threshold, and every
\* other date's the one build_graph returns for that date and the nodes of
\* the last graph, whichever date was built before it.
FamilyOrderIndependent ==
    FamilyReturned =>
        LET graphs == result.value
            n == Len(graphs)
        IN  /\ {graphs[i].date : i \in 1..n} = ListedDates
            /\ n = Cardinality(ListedDates)
            /\ graphs[n].graph =
                build_graph(graphs[n].date, None, call.min_retweeted,
                    call.keep_single).value
            /\ \A i \in 1..(n - 1) :
                graphs[i].graph =
                    build_graph(graphs[i].date, List(graphs[n].graph.nodes), 0,
                        TRUE).value

\* C19 witness: a dict was returned whose first two graphs were built in
\* descending order of date and have not the same nodes.
FamilyOrderIndependentWitness ==
    /\ FamilyReturned
    /\ Len(result.value) > 2
    /\ result.value[1].date > result.value[2].date
    /\ result.value[1].graph.nodes # result.value[2].graph.nodes

\* draw_graph has returned or raised.
GraphDrawn == pc = "drawn" /\ call.op = "draw_graph"

\* The attribute asked for to size the nodes or, when none is, to color them.
NodeAttributeAsked ==
    IF call.request.node_size # NoName THEN call.request.node_size
    ELSE call.request.node_color

\* C12 (Scenario D): draw_graph asked to size or color the nodes of a graph,
\* a graph without nodes too, by an attribute that no node of the graph has
\* raises KeyError, and the error names the attribute.
MissingAttributeRaisesKeyError ==
    ( /\ GraphDrawn
      /\ NodeAttributeAsked # NoName
      /\ \A n \in call.graph.nodes : NodeAttributeAsked \notin DOMAIN call.graph.attrs[n] )
        => result.error = "KeyError" /\ result.value = NodeAttributeAsked

\* draw_graphs_set has returned or raised.
FamilyDrawn == pc = "drawn" /\ call.op = "draw_graphs_set"

\* C20: in every dict build_graphs_set returns, the nodes of every graph are
\* nodes of the last graph of the dict, which is the graph of the latest date
\* of the listing; so the positions draw_graphs_set computes from the last
\* graph hold one for every node of every graph, nx.draw never lacks the
\* position of a node, and with no attribute asked for every graph is drawn
\* and saved.
FamilyNodesHavePositions ==
    FamilyDrawn =>
        LET graphs == call.graphs
        IN  /\ \A d \in ListedDates : d <= graphs[Len(graphs)].date
            /\ \A i \in DOMAIN graphs :
                /\ graphs[i].graph.nodes \subseteq Terminal(graphs).nodes
                /\ graphs[i].graph.nodes \subseteq DOMAIN layout_of(graphs)
            /\ result.error # "NetworkXError"
            /\ call.request = Request(NoName, NoName, NoName, NoName, {}) =>
                /\ result.error = "none"
                /\ {result.images[i].date : i \in DOMAIN result.images} = ListedDates

\* C20 witness: a dict was drawn in which an earlier graph has a node and
\* lacks a node of the last graph, and every graph was saved.
FamilyNodesHavePositionsWitness ==
    /\ FamilyDrawn
    /\ result.error = "none"
    /\ Len(result.images) > 1
    /\ \E i \in Earlier(call.graphs) :
        /\ call.graphs[i].graph.nodes # {}
        /\ call.graphs[i].graph.nodes # Terminal(call.graphs).nodes

=============================================================================
